---- MODULE Spec2Model ----
(***************************************************************************)
(* A model of the mangle library (src/mangle.go) and of the two callers    *)
(* of it that the repository holds: the manglefile command and the tests.  *)
(*                                                                         *)
(* Strings are sequences of Unicode code points (integers).  A Go string   *)
(* is a byte string: ByteLen gives the length len() reports for it, Len    *)
(* the number of runes []rune() yields.                                    *)
(***************************************************************************)
EXTENDS Integers, Sequences, FiniteSets, TLC

VARIABLES
    pc,       \* where the caller of BuildCorpus / mangleWord stands
    scanner,  \* the bufio.Scanner handed to BuildCorpus: its words and its Err()
    built,    \* what BuildCorpus returned
    m,        \* the Mangle value: [Corpus, Secret]
    call,     \* the last mangleWord call: its word, its checksum, its result
    sums,     \* the checksums computed so far: word -> crc32(sha256(word + Secret))
    ms,       \* the frame of the running MangleString call
    io,       \* the frame of the running MangleIO call, its reader and its writer
    hp        \* the frame of the running MangleHTML call and its tokenizer

vars == <<pc, scanner, built, m, call, sums, ms, io, hp>>

(***************************************************************************)
(* Bounds of the model.                                                    *)
(***************************************************************************)
MaxCorpusWords == 2   \* words in a corpus word list
MaxWordLen == 3       \* code points in a word handed to mangleWord
MaxInputLen == 3      \* code points in a plain-text input
MaxFragments == 2     \* fragments (tags, text pieces) in an HTML input

(***************************************************************************)
(* Program constants.                                                      *)
(***************************************************************************)
CorpusSize == 255     \* Corpus [255][]string
Limb == 2^16          \* a 32-bit value is held as two 16-bit limbs [hi, lo]
MaxUint32 == [hi |-> Limb - 1, lo |-> Limb - 1]   \* const MaxUint32 = 1<<32 - 1

Nil == "nil"

(***************************************************************************)
(* The unicode and utf8 packages, on the code points of Latin-1, the two   *)
(* capitals outside it that Latin-1 letters map to, and the CJK ideographs.*)
(***************************************************************************)
IsUpper(r) ==
    \/ r \in 65..90
    \/ r \in 192..214
    \/ r \in 216..222
    \/ r \in {376, 924}

IsLower(r) ==
    \/ r \in 97..122
    \/ r \in 223..246
    \/ r \in 248..255
    \/ r \in {170, 181, 186}

IsLetter(r) == IsUpper(r) \/ IsLower(r) \/ r \in 19968..40959

IsNumber(r) == r \in 48..57 \/ r \in {178, 179, 185, 188, 189, 190}

ToUpper(r) ==
    IF r \in 97..122 \/ r \in 224..246 \/ r \in 248..254 THEN r - 32
    ELSE IF r = 255 THEN 376
    ELSE IF r = 181 THEN 924
    ELSE r

\* len(s) of a Go string: the bytes of its UTF-8 encoding, one per code point and
\* one more for each code point from 128, from 2048 and from 65536 on.
ByteLen(s) ==
    Len(s) + Cardinality({k \in 1..Len(s) : s[k] >= 128})
           + Cardinality({k \in 1..Len(s) : s[k] >= 2048})
           + Cardinality({k \in 1..Len(s) : s[k] >= 65536})

\* strings.ToUpper: every code point mapped by unicode.ToUpper.
StringsToUpper(s) == [k \in 1..Len(s) |-> ToUpper(s[k])]

\* strings.Repeat(" ", count)
Repeat(r, count) == [k \in 1..count |-> r]

(***************************************************************************)
(* BuildCorpus                                                             *)
(***************************************************************************)
EmptyCorpus == [l \in 0..(CorpusSize - 1) |-> <<>>]

ErrNoSingle == "Corpus must contain at least one single character word."

RECURSIVE ScanLoop(_, _)
\* for scanner.Scan() { wordlen := len(scanner.Text()); corpus[wordlen] = append(...) }
\* An index outside the array is a run-time panic.
ScanLoop(corpus, words) ==
    IF words = <<>> THEN [panic |-> FALSE, corpus |-> corpus]
    ELSE LET text == Head(words)
             wordlen == ByteLen(text)
         IN  IF wordlen >= CorpusSize
             THEN [panic |-> TRUE, corpus |-> corpus]
             ELSE ScanLoop([corpus EXCEPT ![wordlen] = Append(@, text)], Tail(words))

BuildCorpus(sc) ==
    LET r == ScanLoop(EmptyCorpus, sc.words)
    IN  IF r.panic THEN [panic |-> TRUE, corpus |-> r.corpus, err |-> Nil]
        ELSE IF Len(r.corpus[1]) = 0
             THEN [panic |-> FALSE, corpus |-> r.corpus, err |-> ErrNoSingle]
             ELSE [panic |-> FALSE, corpus |-> r.corpus, err |-> sc.err]

(***************************************************************************)
(* mangleWord                                                              *)
(***************************************************************************)
\* uint32((crc / MaxUint32) * float64(n)): the quotient crc * n / (2^32 - 1),
\* computed on 16-bit limbs.  With crc * n = a * 2^32 + b it is a, plus one
\* when a + b >= 2^32 - 1.  (For buckets of fewer than 2^15 words; the float64
\* rounding of the source does not move the quotient for such n.)
Pos(crc, n) ==
    LET p0 == crc.lo * n
        p1 == crc.hi * n + (p0 \div Limb)
        a == p1 \div Limb
        bhi == p1 % Limb
        blo == p0 % Limb
    IN  IF bhi = Limb - 1 /\ blo >= Limb - 1 - a THEN a + 1 ELSE a

RECURSIVE Fallback(_, _)
\* for len(m.Corpus[word_len]) == 0 && word_len != 0 { word_len--; pad++ }
Fallback(Corpus, word_len) ==
    IF Len(Corpus[word_len]) = 0 /\ word_len # 0
    THEN Fallback(Corpus, word_len - 1)
    ELSE word_len

Returned(s) == [panic |-> FALSE, out |-> s]
Panicked == [panic |-> TRUE, out |-> <<>>]

\* Capitalize with the all-capitals branch lost: the first code point only.
CapitalizeFirstOnly(word, word_len, replacement) ==
    IF word_len > 0 /\ IsUpper(word[1])
    THEN Returned(<<ToUpper(replacement[1])>> \o Tail(replacement))
    ELSE Returned(replacement)

\* The capitalisation step; word_len is the length the fallback loop left.
Capitalize(word, word_len, replacement) ==
    IF word_len > 0 /\ IsUpper(word[1])
    THEN IF word_len > 1 /\ IsUpper(word[2])
         THEN Returned(StringsToUpper(replacement))
         ELSE IF replacement = <<>> THEN Panicked
              ELSE Returned(<<ToUpper(replacement[1])>> \o Tail(replacement))
    ELSE Returned(replacement)

\* Select with the padding lost.
SelectUnpadded(Corpus, word_len, pos, pad) == Corpus[word_len][pos + 1]

\* Select the word from the corpus and pad it.
Select(Corpus, word_len, pos, pad) ==
    Corpus[word_len][pos + 1] \o Repeat(32, pad)

\* crc is the checksum line 202 computes from the word and m.Secret.
mangleWord(mg, word, crc) ==
    IF Len(word) = 0 THEN Returned(<<>>)
    ELSE IF Len(word) >= CorpusSize THEN Panicked
    ELSE LET word_len == Fallback(mg.Corpus, Len(word))
             pad == Len(word) - word_len
         IN  IF word_len = 0 THEN Returned(<<>>)
             ELSE LET pos == Pos(crc, Len(mg.Corpus[word_len]))
                  IN  IF pos >= Len(mg.Corpus[word_len]) THEN Panicked
                      ELSE Capitalize(word, word_len,
                                      Select(mg.Corpus, word_len, pos, pad))

(***************************************************************************)
(* The checksum: crc32.ChecksumIEEE(sha256(word + Secret)).  The digest is  *)
(* not computed here: the checksum of a word is some 32-bit value, the     *)
(* same one every time that word is hashed in a run (sums remembers it).   *)
(* The values tried are the least, the greatest, the one below the         *)
(* greatest and one in the middle.                                         *)
(***************************************************************************)
Zero == [hi |-> 0, lo |-> 0]
Checksums == {Zero, [hi |-> Limb \div 2, lo |-> 0], [hi |-> Limb - 1, lo |-> Limb - 2], MaxUint32}

\* crc is what hashing word yields in this run.
Hashed(word, crc) == crc \in Checksums /\ (word \in DOMAIN sums => sums[word] = crc)

Remember(word, crc) ==
    [w \in DOMAIN sums \cup {word} |-> IF w = word THEN crc ELSE sums[w]]

NoSums == [w \in {} |-> Zero]

\* The checksums hashing word may yield; mangleWord hashes no empty word.
Crcs(word) == IF word = <<>> THEN {Zero} ELSE {crc \in Checksums : Hashed(word, crc)}

Sums(word, crc) == IF word = <<>> THEN sums ELSE Remember(word, crc)

(***************************************************************************)
(* Inputs.                                                                 *)
(***************************************************************************)
SeqsUpTo(S, n) == UNION {[1..k -> S] : k \in 0..n}

\* A word as long as the corpus table: 255 times "a".
LongWord == [k \in 1..CorpusSize |-> 97]

\* "a", "b", "dd", "é" (one code point, two bytes) and the long word.
CorpusWords == {<<97>>, <<98>>, <<100, 100>>, <<233>>, LongWord}

ErrRead == "read error"

\* What a scanner delivers: the words it scans before it ends, and its Err().
Scanners == [words : SeqsUpTo(CorpusWords, MaxCorpusWords), err : {Nil, ErrRead}]

Secrets == {"123456789012345678901234567890", "123456789012345678901234567890-"}

\* "a", "A", "1": a lower-case letter, an upper-case letter, a numeral.
WordChars == {97, 65, 49}

Words == SeqsUpTo(WordChars, MaxWordLen) \cup {LongWord}

NoCall == [done |-> FALSE, word |-> <<>>, crc |-> Zero, ret |-> Returned(<<>>)]
NoBuilt == [panic |-> FALSE, corpus |-> EmptyCorpus, err |-> Nil]
NoMangle == [Corpus |-> EmptyCorpus, Secret |-> ""]

IdleString == [pc |-> "idle", runes |-> <<>>, i |-> 0, word |-> <<>>, output |-> <<>>]
IdleIO == [pc |-> "idle", input |-> <<>>, pos |-> 0, word |-> <<>>, written |-> <<>>,
           err |-> Nil, readFailed |-> FALSE, writeFailed |-> FALSE]
IdleHTML == [pc |-> "idle", input |-> <<>>, readErr |-> Nil, pos |-> 0, tokEnd |-> 0,
             written |-> <<>>, writeFailed |-> FALSE, emitted |-> <<>>, err |-> Nil]

(***************************************************************************)
(* The corpus is built, a Mangle is made of it and words are mangled.      *)
(***************************************************************************)
Init ==
    /\ pc = "start"
    /\ scanner \in Scanners
    /\ built = NoBuilt
    /\ m = NoMangle
    /\ call = NoCall
    /\ sums = NoSums
    /\ ms = IdleString
    /\ io = IdleIO
    /\ hp = IdleHTML

\* corpus, err := BuildCorpus(scanner)
BuildCorpusCall ==
    /\ pc = "start"
    /\ built' = BuildCorpus(scanner)
    /\ pc' = IF built'.panic THEN "panic" ELSE "built"
    /\ UNCHANGED <<scanner, m, call, sums, ms, io, hp>>

\* manglefile: if err != nil { log.Fatalf("Corpus read error: %s", err) }
Fatal ==
    /\ pc = "built"
    /\ built.err # Nil
    /\ pc' = "exit"
    /\ UNCHANGED <<scanner, built, m, call, sums, ms, io, hp>>

\* mangle.Mangle{corpus, secret}.  The tests drop BuildCorpus's error.
NewMangle ==
    /\ pc = "built"
    /\ \E secret \in Secrets : m' = [Corpus |-> built.corpus, Secret |-> secret]
    /\ pc' = "ready"
    /\ UNCHANGED <<scanner, built, call, sums, ms, io, hp>>

\* m.mangleWord(word)
MangleWordCall ==
    /\ pc = "ready"
    /\ \E word \in Words : \E crc \in Crcs(word) :
          /\ call' = [done |-> TRUE, word |-> word, crc |-> crc,
                      ret |-> mangleWord(m, word, crc)]
          /\ sums' = Sums(word, crc)
    /\ pc' = "called"
    /\ UNCHANGED <<scanner, built, m, ms, io, hp>>

Next == BuildCorpusCall \/ Fatal \/ NewMangle \/ MangleWordCall

Spec == Init /\ [][Next]_vars

(***************************************************************************)
(* MangleString.  The frame ms holds the call's locals; one action is one  *)
(* pass of the loop, one the statements after it.                          *)
(***************************************************************************)
StartString(s) == [pc |-> "loop", runes |-> s, i |-> 0, word |-> <<>>, output |-> <<>>]

\* One pass of "for i := 0; i < strlen; i++".
MangleStringRune ==
    /\ ms.pc = "loop"
    /\ ms.i < Len(ms.runes)
    /\ LET rune == ms.runes[ms.i + 1]
       IN  IF IsLetter(rune) \/ IsNumber(rune)
           THEN /\ ms' = [ms EXCEPT !.word = Append(@, rune), !.i = @ + 1]
                /\ UNCHANGED sums
           ELSE IF Len(ms.word) > 0
                THEN \E crc \in Crcs(ms.word) :
                        LET r == mangleWord(m, ms.word, crc)
                        IN  /\ ms' = IF r.panic
                                     THEN [ms EXCEPT !.pc = "panic"]
                                     ELSE [ms EXCEPT !.output = @ \o r.out \o <<rune>>,
                                                     !.word = <<>>, !.i = @ + 1]
                            /\ sums' = Sums(ms.word, crc)
                ELSE /\ ms' = [ms EXCEPT !.output = @ \o <<rune>>, !.i = @ + 1]
                     /\ UNCHANGED sums
    /\ UNCHANGED <<pc, scanner, built, m, call, io, hp>>

\* MangleStringLast with the last word dropped instead of mangled.
MangleStringLastDropped ==
    /\ ms.pc = "loop"
    /\ ms.i = Len(ms.runes)
    /\ ms' = [ms EXCEPT !.pc = "done"]
    /\ UNCHANGED <<pc, scanner, built, m, call, sums, io, hp>>

\* After the loop: output += m.mangleWord(word); return output.
MangleStringLast ==
    /\ ms.pc = "loop"
    /\ ms.i = Len(ms.runes)
    /\ \E crc \in Crcs(ms.word) :
          LET r == mangleWord(m, ms.word, crc)
          IN  /\ ms' = IF r.panic
                       THEN [ms EXCEPT !.pc = "panic"]
                       ELSE [ms EXCEPT !.output = @ \o r.out, !.pc = "done"]
              /\ sums' = Sums(ms.word, crc)
    /\ UNCHANGED <<pc, scanner, built, m, call, io, hp>>

(***************************************************************************)
(* MangleIO.  The frame io holds the call's locals, the reader (input, the *)
(* code points it delivers, and pos, how many it has delivered) and the    *)
(* writer (written, what it has accepted).  A read or a write may fail.    *)
(***************************************************************************)
StartIO(s) == [IdleIO EXCEPT !.pc = "loop", !.input = s]

\* fmt.Fprint(w, s), its result dropped: the writer takes s, or fails and takes
\* nothing (an empty s asks nothing of it).
Fprint(f, ok, s) ==
    [f EXCEPT !.written = IF ok THEN @ \o s ELSE @,
              !.writeFailed = @ \/ (~ok /\ s # <<>>)]

\* rune, _, err = bufr.ReadRune(); if err != nil { return err }
MangleIOReadError ==
    /\ io.pc = "loop"
    /\ ms.pc \in {"done", "panic"}
    /\ io' = [io EXCEPT !.pc = "returned", !.err = ErrRead, !.readFailed = TRUE]
    /\ UNCHANGED <<pc, scanner, built, m, call, sums, ms, hp>>

\* MangleIOEOF with the last word dropped instead of mangled.
MangleIOEOFDropped ==
    /\ io.pc = "loop"
    /\ ms.pc \in {"done", "panic"}
    /\ io.pos = Len(io.input)
    /\ io' = [io EXCEPT !.pc = "returned", !.err = Nil]
    /\ UNCHANGED <<pc, scanner, built, m, call, sums, ms, hp>>

\* if rune == bufrr.EOF { fmt.Fprint(w, m.mangleWord(word)); return nil }
MangleIOEOF ==
    /\ io.pc = "loop"
    /\ ms.pc \in {"done", "panic"}
    /\ io.pos = Len(io.input)
    /\ \E crc \in Crcs(io.word), ok \in BOOLEAN :
          LET r == mangleWord(m, io.word, crc)
          IN  /\ io' = IF r.panic
                       THEN [io EXCEPT !.pc = "panic"]
                       ELSE [Fprint(io, ok, r.out) EXCEPT !.pc = "returned", !.err = Nil]
              /\ sums' = Sums(io.word, crc)
    /\ UNCHANGED <<pc, scanner, built, m, call, ms, hp>>

\* One pass of the loop that reads a code point.
MangleIORune ==
    /\ io.pc = "loop"
    /\ ms.pc \in {"done", "panic"}
    /\ io.pos < Len(io.input)
    /\ LET rune == io.input[io.pos + 1]
       IN  IF IsLetter(rune) \/ IsNumber(rune)
           THEN /\ io' = [io EXCEPT !.word = Append(@, rune), !.pos = @ + 1]
                /\ UNCHANGED sums
           ELSE IF Len(io.word) > 0
                THEN \E crc \in Crcs(io.word), ok1 \in BOOLEAN, ok2 \in BOOLEAN :
                        LET r == mangleWord(m, io.word, crc)
                        IN  /\ io' = IF r.panic
                                     THEN [io EXCEPT !.pc = "panic"]
                                     ELSE [Fprint(Fprint(io, ok1, r.out), ok2, <<rune>>)
                                             EXCEPT !.word = <<>>, !.pos = @ + 1]
                            /\ sums' = Sums(io.word, crc)
                ELSE /\ \E ok \in BOOLEAN :
                          io' = [Fprint(io, ok, <<rune>>) EXCEPT !.pos = @ + 1]
                     /\ UNCHANGED sums
    /\ UNCHANGED <<pc, scanner, built, m, call, ms, hp>>

(***************************************************************************)
(* The tests' TestStrings and TestIO: one input is mangled by MangleString *)
(* and then by MangleIO, with one Mangle.                                  *)
(***************************************************************************)
\* Corpus word lists: "a b dd"; "a"; "dd é" (no word of one byte: the error
\* BuildCorpus returns for it is dropped, as initTestCorpus drops it).
TextWordLists == {<< <<97>>, <<98>>, <<100, 100>> >>, << <<97>> >>, << <<100, 100>>, <<233>> >>}

\* "a", "A", " ", "."
TextChars == {97, 65, 32, 46}

TextInputs == SeqsUpTo(TextChars, MaxInputLen)

InitText ==
    /\ pc = "ready"
    /\ \E words \in TextWordLists : scanner = [words |-> words, err |-> Nil]
    /\ built = BuildCorpus(scanner)
    /\ \E secret \in Secrets : m = [Corpus |-> built.corpus, Secret |-> secret]
    /\ call = NoCall
    /\ sums = NoSums
    /\ \E s \in TextInputs : ms = StartString(s) /\ io = StartIO(s)
    /\ hp = IdleHTML

NextText ==
    \/ MangleStringRune
    \/ MangleStringLast
    \/ MangleIOReadError
    \/ MangleIOEOF
    \/ MangleIORune

SpecText == InitText /\ [][NextText]_vars

(***************************************************************************)
(* The HTML tokenizer (html.NewTokenizer, Next, Raw, Text, Err), as far as *)
(* mangleHTMLParser uses it: a "<" followed by a letter, by "/" and a      *)
(* letter or by "!" opens a token that runs to the next ">"; anything else *)
(* is text, up to the next such "<".  Text() is the text with its entities *)
(* unescaped; Raw() is the token as it stands in the input.                *)
(***************************************************************************)
IsAsciiLetter(r) == r \in 65..90 \/ r \in 97..122

TagAt(s, j) ==
    /\ j < Len(s)
    /\ s[j] = 60
    /\ \/ IsAsciiLetter(s[j + 1])
       \/ s[j + 1] = 33
       \/ s[j + 1] = 47 /\ j + 1 < Len(s) /\ IsAsciiLetter(s[j + 2])

\* z.Next() with p code points of s consumed: the token's type and where it ends.
NextToken(s, p) ==
    IF p >= Len(s) THEN [tt |-> "ErrorToken", end |-> p]
    ELSE IF TagAt(s, p + 1)
    THEN LET closes == {q \in (p + 1)..Len(s) : s[q] = 62}
         IN  IF closes = {} THEN [tt |-> "ErrorToken", end |-> p]
             ELSE [tt |-> IF s[p + 2] = 47 THEN "EndTagToken"
                          ELSE IF s[p + 2] = 33 THEN "CommentToken"
                          ELSE "StartTagToken",
                   end |-> CHOOSE q \in closes : \A q2 \in closes : q <= q2]
    ELSE [tt |-> "TextToken",
          end |-> CHOOSE q \in (p + 1)..Len(s) :
                     /\ q = Len(s) \/ TagAt(s, q + 1)
                     /\ \A j \in (p + 2)..q : ~TagAt(s, j)]

IsPrefix(e, s) == Len(e) <= Len(s) /\ SubSeq(s, 1, Len(e)) = e

Drop(s, n) == SubSeq(s, n + 1, Len(s))

RECURSIVE Unescape(_)
\* "&lt;" is "<", "&gt;" is ">", "&amp;" is "&".
Unescape(s) ==
    IF s = <<>> THEN <<>>
    ELSE IF IsPrefix(<<38, 108, 116, 59>>, s) THEN <<60>> \o Unescape(Drop(s, 4))
    ELSE IF IsPrefix(<<38, 103, 116, 59>>, s) THEN <<62>> \o Unescape(Drop(s, 4))
    ELSE IF IsPrefix(<<38, 97, 109, 112, 59>>, s) THEN <<38>> \o Unescape(Drop(s, 5))
    ELSE <<Head(s)>> \o Unescape(Tail(s))

\* err.Error()
ErrorText(e) ==
    CASE e = "io.EOF" -> "EOF"
      [] e = "io.ErrUnexpectedEOF" -> "unexpected EOF"
      [] OTHER -> e

(***************************************************************************)
(* MangleHTML and mangleHTMLParser.  The frame hp holds the tokenizer      *)
(* (input, the code points the reader delivers before it ends with         *)
(* readErr; pos, how many the tokenizer has consumed), the writer and      *)
(* emitted, what the driver has handed to the writer.                      *)
(***************************************************************************)
StartHTML(s, e) == [IdleHTML EXCEPT !.pc = "ScanningToken", !.input = s, !.readErr = e]

Emit(f, ok, tt, s) ==
    [Fprint(f, ok, s) EXCEPT !.emitted = Append(@, [tt |-> tt, data |-> s])]

\* MangleHTMLResult with the test for end-of-input lost.
MangleHTMLResultAsIs(err) == err

\* MangleHTML: if err.Error() == "EOF" { err = nil }; return err
MangleHTMLResult(err) == IF ErrorText(err) = "EOF" THEN Nil ELSE err

\* case html.ErrorToken: return z.Err(), and MangleHTML's return.
HTMLErrorToken ==
    /\ hp.pc = "ScanningToken"
    /\ NextToken(hp.input, hp.pos).tt = "ErrorToken"
    /\ LET err == MangleHTMLResult(hp.readErr)
       IN  hp' = [hp EXCEPT !.err = err, !.pc = IF err = Nil THEN "Done" ELSE "Failed"]
    /\ UNCHANGED <<pc, scanner, built, m, call, sums, ms, io>>

\* case html.TextToken: token := string(z.Text()); m.MangleString(token) is called.
HTMLTextToken ==
    /\ hp.pc = "ScanningToken"
    /\ LET tok == NextToken(hp.input, hp.pos)
       IN  /\ tok.tt = "TextToken"
           /\ ms' = StartString(Unescape(SubSeq(hp.input, hp.pos + 1, tok.end)))
           /\ hp' = [hp EXCEPT !.pc = "EmitMangled", !.tokEnd = tok.end]
    /\ UNCHANGED <<pc, scanner, built, m, call, sums, io>>

\* fmt.Fprint(w, m.MangleString(token)), MangleString having returned.
HTMLEmitMangled ==
    /\ hp.pc = "EmitMangled"
    /\ ms.pc = "done"
    /\ \E ok \in BOOLEAN :
          hp' = [Emit(hp, ok, "TextToken", ms.output)
                   EXCEPT !.pc = "ScanningToken", !.pos = hp.tokEnd]
    /\ ms' = IdleString
    /\ UNCHANGED <<pc, scanner, built, m, call, sums, io>>

\* MangleString stopped in a run-time panic, and so does MangleHTML.
HTMLPanic ==
    /\ hp.pc = "EmitMangled"
    /\ ms.pc = "panic"
    /\ hp' = [hp EXCEPT !.pc = "panic"]
    /\ UNCHANGED <<pc, scanner, built, m, call, sums, ms, io>>

\* default: fmt.Fprint(w, string(z.Raw()))
HTMLEmitRaw ==
    /\ hp.pc = "ScanningToken"
    /\ LET tok == NextToken(hp.input, hp.pos)
       IN  /\ tok.tt \notin {"ErrorToken", "TextToken"}
           /\ \E ok \in BOOLEAN :
                 hp' = [Emit(hp, ok, tok.tt, SubSeq(hp.input, hp.pos + 1, tok.end))
                          EXCEPT !.pos = tok.end]
    /\ UNCHANGED <<pc, scanner, built, m, call, sums, ms, io>>

\* "<b>", "</b>", "<!a>", the text "A a" and the text "&lt;b&gt;".
Fragments ==
    { <<60, 98, 62>>, <<60, 47, 98, 62>>, <<60, 33, 97, 62>>, <<65, 32, 97>>,
      <<38, 108, 116, 59, 98, 38, 103, 116, 59>> }

RECURSIVE Join(_)
Join(fs) == IF fs = <<>> THEN <<>> ELSE Head(fs) \o Join(Tail(fs))

HTMLInputs == {Join(fs) : fs \in SeqsUpTo(Fragments, MaxFragments)}

\* What the reader ends with: the end of the input, or a failure.
ReaderErrors == {"io.EOF", "io.ErrUnexpectedEOF", ErrRead}

InitHTML ==
    /\ pc = "ready"
    /\ \E words \in TextWordLists : scanner = [words |-> words, err |-> Nil]
    /\ built = BuildCorpus(scanner)
    /\ \E secret \in Secrets : m = [Corpus |-> built.corpus, Secret |-> secret]
    /\ call = NoCall
    /\ sums = NoSums
    /\ ms = IdleString
    /\ io = IdleIO
    /\ \E s \in HTMLInputs, e \in ReaderErrors : hp = StartHTML(s, e)

NextHTML ==
    \/ HTMLErrorToken
    \/ HTMLTextToken
    \/ MangleStringRune
    \/ MangleStringLast
    \/ HTMLEmitMangled
    \/ HTMLPanic
    \/ HTMLEmitRaw

SpecHTML == InitHTML /\ [][NextHTML]_vars

(***************************************************************************)
(* Claims about BuildCorpus and mangleWord, checked under Spec.            *)
(***************************************************************************)
\* mangleWord returned a replacement.
Found == call.done /\ ~call.ret.panic /\ call.ret.out # <<>>

\* Every word of bucket L has L code points.
Uniform(Corpus) ==
    \A L \in DOMAIN Corpus : \A k \in 1..Len(Corpus[L]) : Len(Corpus[L][k]) = L

\* C3: with a corpus whose bucket L holds only words of L code points, a
\* replacement that is found has as many code points as the word; when the
\* bucket of the word's length is empty it is a word of the largest non-empty
\* shorter bucket followed by exactly (length of the word - length chosen) spaces.
C3_LengthPreserved ==
    (Found /\ Uniform(m.Corpus)) =>
        LET w == call.word
            out == call.ret.out
        IN  /\ Len(out) = Len(w)
            /\ m.Corpus[Len(w)] = <<>> =>
                 \E L \in 1..(Len(w) - 1) :
                    /\ m.Corpus[L] # <<>>
                    /\ \A j \in (L + 1)..Len(w) : m.Corpus[j] = <<>>
                    /\ \E k \in 1..Len(m.Corpus[L]) :
                          StringsToUpper(SubSeq(out, 1, L)) = StringsToUpper(m.Corpus[L][k])
                    /\ \A j \in (L + 1)..Len(out) : out[j] = 32

\* A word of three code points replaced by a shorter corpus word and padding.
C3_Witness ==
    /\ Found
    /\ Uniform(m.Corpus)
    /\ Len(call.word) = 3
    /\ m.Corpus[3] = <<>>
    /\ call.ret.out[1] # 32
    /\ call.ret.out[3] = 32

\* C4: a replacement that is found is a corpus word and its padding, all of it
\* upper-cased when the original word's first two code points are upper case,
\* its first code point upper-cased when only the first is, and as stored
\* otherwise; also when it comes from a shorter bucket.
C4_CaseTransfer ==
    Found =>
        LET w == call.word
        IN  \E L \in 1..Len(w) : \E k \in 1..Len(m.Corpus[L]) :
               LET stored == m.Corpus[L][k] \o Repeat(32, Len(w) - L)
               IN  call.ret.out =
                      IF IsUpper(w[1]) /\ Len(w) > 1 /\ IsUpper(w[2])
                      THEN StringsToUpper(stored)
                      ELSE IF IsUpper(w[1])
                           THEN <<ToUpper(stored[1])>> \o Tail(stored)
                           ELSE stored

\* An all-capitals word of three code points replaced, upper-cased, by a word of
\* two code points and one space.
C4_Witness ==
    /\ Found
    /\ Len(call.word) = 3
    /\ IsUpper(call.word[1]) /\ IsUpper(call.word[2])
    /\ m.Corpus[3] = <<>>
    /\ IsUpper(call.ret.out[1]) /\ IsUpper(call.ret.out[2])
    /\ call.ret.out[3] = 32

\* C6: the replacement emitted for a non-empty word differs from the word.
C6_NeverTheWordItself ==
    (call.done /\ call.word # <<>> /\ ~call.ret.panic) => call.ret.out # call.word

\* C9: after BuildCorpus returns, every word of bucket L has L code points, and
\* it fails with the configuration error exactly when no input word has one
\* code point.
C9_BucketsByCodePoints ==
    (pc # "start" /\ ~built.panic) =>
        /\ Uniform(built.corpus)
        /\ (built.err = ErrNoSingle)
              <=> ~(\E k \in 1..Len(scanner.words) : Len(scanner.words[k]) = 1)

\* C10: for a non-empty word and a corpus with a non-empty length-1 bucket,
\* mangleWord returns: no table access is out of range.
C10_NeverFails ==
    (call.done /\ call.word # <<>> /\ m.Corpus[1] # <<>>) => ~call.ret.panic

(***************************************************************************)
(* Claims about MangleString and MangleIO, checked under SpecText.         *)
(***************************************************************************)
\* C1: MangleIO, its reads and writes succeeding, writes what MangleString
\* returns for the same input, secret and corpus; and one of them stops in a
\* run-time panic exactly when the other does.
C1_StringAndIOAgree ==
    /\ (ms.pc = "done" /\ io.pc = "returned" /\ io.err = Nil /\ ~io.writeFailed)
          => io.written = ms.output
    /\ io.pc = "panic" => ms.pc = "panic"
    /\ (ms.pc = "panic" /\ io.pc = "returned") => io.err # Nil

\* Both calls returned for an input of three code points that ends in a word,
\* and the output is not the input.
C1_Witness ==
    /\ ms.pc = "done" /\ io.pc = "returned" /\ io.err = Nil /\ ~io.writeFailed
    /\ Len(io.input) = 3
    /\ IsLetter(io.input[3])
    /\ ~IsLetter(io.input[2])
    /\ Len(io.written) = 3
    /\ io.written # io.input

\* A word character: a letter or a numeral.
WordChar(r) == IsLetter(r) \/ IsNumber(r)

\* What the Word Mapper returns for the word w in this run.
Mapped(w) ==
    IF w \in DOMAIN sums /\ ~mangleWord(m, w, sums[w]).panic
    THEN mangleWord(m, w, sums[w]).out
    ELSE <<-1>>

\* The last position of the maximal run of word characters that holds position p.
RunEnd(s, p) ==
    CHOOSE q \in p..Len(s) :
        /\ \A j \in p..q : WordChar(s[j])
        /\ q = Len(s) \/ ~WordChar(s[q + 1])

\* What position p of the input contributes to the output: a non-word character
\* itself, the first position of a maximal run the mapping of the run, any other
\* position of a run nothing.
Piece(s, p) ==
    IF ~WordChar(s[p]) THEN <<s[p]>>
    ELSE IF p = 1 \/ ~WordChar(s[p - 1]) THEN Mapped(SubSeq(s, p, RunEnd(s, p)))
    ELSE <<>>

RECURSIVE Pieces(_, _)
Pieces(s, p) == IF p > Len(s) THEN <<>> ELSE Piece(s, p) \o Pieces(s, p + 1)

\* C2: what MangleString returns is, in input order, the Word Mapper's result for
\* every maximal run of word characters and every other character once, unchanged.
C2_Segmented == ms.pc = "done" => ms.output = Pieces(ms.runes, 1)

\* An input that ends in a word, with no separator after it, was mapped.
C2_Witness ==
    /\ ms.pc = "done"
    /\ Len(ms.runes) = 3
    /\ ~WordChar(ms.runes[1]) /\ WordChar(ms.runes[2]) /\ WordChar(ms.runes[3])
    /\ Len(ms.output) = 3
    /\ ms.output[1] = ms.runes[1]
    /\ SubSeq(ms.output, 2, 3) # SubSeq(ms.runes, 2, 3)

\* C7: a failed read or a failed write makes MangleIO return an error.
C7_FailuresPropagate ==
    (io.pc = "returned" /\ (io.readFailed \/ io.writeFailed)) => io.err # Nil

(***************************************************************************)
(* Claims about MangleHTML, checked under SpecHTML.                        *)
(***************************************************************************)
RECURSIVE Tokens(_, _)
\* The tokens of s from offset p on, each with its type and its raw source.
Tokens(s, p) ==
    LET tok == NextToken(s, p)
    IN  IF tok.tt = "ErrorToken" THEN <<>>
        ELSE <<[tt |-> tok.tt, raw |-> SubSeq(s, p + 1, tok.end)]>> \o Tokens(s, tok.end)

IsStructural(tok) == tok.tt # "TextToken"

\* The tag structure of a document: its tokens without the text.
Structure(s) == SelectSeq(Tokens(s, 0), IsStructural)

\* C5: the output of MangleHTML is, token by token, the raw source of every
\* token that is not text and the Text Segmenter's result for every text token,
\* and its tag structure is that of the input: no structural token is added,
\* dropped or altered.
C5_MarkupFidelity ==
    (hp.pc = "Done" /\ ~hp.writeFailed) =>
        LET toks == Tokens(hp.input, 0)
        IN  /\ Len(hp.emitted) = Len(toks)
            /\ \A k \in 1..Len(toks) :
                  hp.emitted[k].data =
                     IF toks[k].tt = "TextToken"
                     THEN Pieces(Unescape(toks[k].raw), 1)
                     ELSE toks[k].raw
            /\ Structure(hp.written) = Structure(hp.input)

\* C8: MangleHTML returns when the tokenizer reports an error, every token
\* before it handed on in order: with nil (Done) when the error is the end of
\* the input, with that error (Failed) when it is any other.
C8_TerminalOutcomes ==
    LET toks == Tokens(hp.input, 0)
    IN  /\ hp.pc \in {"Done", "Failed"} =>
              /\ NextToken(hp.input, hp.pos).tt = "ErrorToken"
              /\ Len(hp.emitted) = Len(toks)
              /\ \A k \in 1..Len(toks) :
                    /\ hp.emitted[k].tt = toks[k].tt
                    /\ IsStructural(toks[k]) => hp.emitted[k].data = toks[k].raw
        /\ hp.pc = "Done" <=> (hp.pc \in {"Done", "Failed"} /\ hp.readErr = "io.EOF")
        /\ hp.pc = "Done" => hp.err = Nil
        /\ hp.pc = "Failed" => hp.err = hp.readErr /\ hp.err # Nil

\* A document of a tag and a text ended, its two tokens handed on.
C8_Witness ==
    /\ hp.pc = "Done"
    /\ hp.readErr = "io.EOF"
    /\ Len(hp.emitted) = 2
    /\ hp.emitted[1].tt = "StartTagToken"
    /\ hp.emitted[2].tt = "TextToken"

====
